---- MODULE Spec2Model ----
(***************************************************************************)
(* Token Quest front end (frontend/script.js): the swap orchestrator, the  *)
(* progression ledger (XP / level / quest log) with its localStorage       *)
(* persistence, and the wallet session they depend on.                     *)
(*                                                                         *)
(* JavaScript values are encoded as follows.                               *)
(*   - a string that the code parses or builds (a number in localStorage,  *)
(*     the amount field) is a sequence of one-character strings;           *)
(*   - a JavaScript number is <<v>>, NaN is << >>;                         *)
(*   - an optional value (null / undefined / missing key) is << >>, a      *)
(*     present value v is <<v>>.                                           *)
(***************************************************************************)
EXTENDS Integers, Sequences, FiniteSets

(***************************************************************************)
(* Bounds of the model.                                                    *)
(***************************************************************************)
\* execute requests issued in one run of Spec
MaxSwaps == 2
\* execute requests issued in one run of SpecLog
MaxLogSwaps == 11
\* eth_requestAccounts requests in flight at once
MaxConnects == 1
\* execute requests in flight at once in SpecLog
MaxInFlight == 2
\* execute requests issued in one run of SpecLedger
MaxLedgerSwaps == 2
\* connectWallet calls that are past their first await at once, in SpecWallet
MaxTasks == 1
\* quote requests issued in one run of SpecQuote
MaxQuotes == 3
\* execute requests issued in one run of SpecPersist
MaxPersistSwaps == 2
\* execute and quote requests issued in one run of SpecRequests
MaxRequests == 2

\* execute requests issued in one run of SpecStorage
MaxStorageSwaps == 2

(***************************************************************************)
(* Program constants.                                                      *)
(***************************************************************************)
\* addToQuestLog: "Keep only last 10 entries"
QuestLogCap == 10
\* addXP: Math.floor(AppState.currentXP / 100) + 1
XpPerLevel == 100
\* handleSwapSuccess: result.xp_earned || 10
BaseXP == 10
\* toWei(amount, 'ether'): the 'ether' unit has 18 decimals
EtherDecimals == 18

(***************************************************************************)
(* Strings as character sequences, numbers.                                *)
(***************************************************************************)
NaN == << >>
Num(v) == <<v>>

Digits == <<"0", "1", "2", "3", "4", "5", "6", "7", "8", "9">>

IsDigit(c) == \E i \in 1..10 : Digits[i] = c

DigitVal(c) == (CHOOSE i \in 1..10 : Digits[i] = c) - 1

\* the longest prefix of s made of digits
RECURSIVE DigitPrefix(_)
DigitPrefix(s) ==
    IF s = << >> \/ ~IsDigit(Head(s)) THEN << >>
    ELSE <<Head(s)>> \o DigitPrefix(Tail(s))

\* the value of a sequence of digits
RECURSIVE DigitsValue(_)
DigitsValue(ds) ==
    IF ds = << >> THEN 0
    ELSE 10 * DigitsValue(SubSeq(ds, 1, Len(ds) - 1)) + DigitVal(ds[Len(ds)])

\* the decimal digits of a natural number
RECURSIVE NatToString(_)
NatToString(n) ==
    IF n < 10 THEN <<Digits[n + 1]>>
    ELSE NatToString(n \div 10) \o <<Digits[(n % 10) + 1]>>

\* Number.prototype.toString() of an integer-valued number or NaN
NumberToString(x) ==
    IF x = NaN THEN <<"N", "a", "N">>
    ELSE IF x[1] < 0 THEN <<"-">> \o NatToString(0 - x[1])
    ELSE NatToString(x[1])

\* parseInt(s): optional sign, then the longest run of digits; NaN if none
ParseInt(s) ==
    LET neg  == s # << >> /\ Head(s) = "-"
        body == IF s # << >> /\ Head(s) \in {"-", "+"} THEN Tail(s) ELSE s
        ds   == DigitPrefix(body)
    IN  IF ds = << >> THEN NaN
        ELSE IF neg THEN Num(0 - DigitsValue(ds))
        ELSE Num(DigitsValue(ds))

\* a + b on JavaScript numbers
JsAdd(a, b) == IF a = NaN \/ b = NaN THEN NaN ELSE Num(a[1] + b[1])

\* a > b on JavaScript numbers: false when either side is NaN
JsGt(a, b) == a # NaN /\ b # NaN /\ a[1] > b[1]

\* Math.floor(xp / 100) + 1
LevelFor(xp) == IF xp = NaN THEN NaN ELSE Num((xp[1] \div XpPerLevel) + 1)

\* if (s): a string read from localStorage is truthy when present and non-empty
Truthy(opt) == opt # << >> /\ opt[1] # << >>

(***************************************************************************)
(* CONFIG.TOKENS and token lookup.                                         *)
(***************************************************************************)
WBNB_ADDRESS == "0xae13d989daC2f0dEbFf460aC112a837C89BAa7cd"
BUSD_ADDRESS == "0x78867BbEeF44f2326bF8DDd1941a4439382EF2A7"
\* the same two addresses as a form may spell them, in lower case
WBNB_LOWER == "0xae13d989dac2f0debff460ac112a837c89baa7cd"
BUSD_LOWER == "0x78867bbeef44f2326bf8ddd1941a4439382ef2a7"
\* an address that is not in the registry
OTHER_ADDRESS == "0x000000000000000000000000000000000000dead"

TOKENS ==
    << [symbol |-> "WBNB", address |-> WBNB_ADDRESS, decimals |-> 18],
       [symbol |-> "BUSD", address |-> BUSD_ADDRESS, decimals |-> 18] >>

\* String.prototype.toLowerCase() on the addresses of the model
ToLowerCase(s) ==
    CASE s = WBNB_ADDRESS -> WBNB_LOWER
      [] s = BUSD_ADDRESS -> BUSD_LOWER
      [] OTHER -> s

\* the symbol of the first registry token with this address, or null
GetTokenSymbolByAddress(address) ==
    LET hits == {i \in 1..Len(TOKENS) :
                    ToLowerCase(TOKENS[i].address) = ToLowerCase(address)}
    IN  IF hits = {} THEN << >>
        ELSE <<TOKENS[CHOOSE i \in hits : \A j \in hits : i <= j].symbol>>

(***************************************************************************)
(* The amount field: parseFloat and web3.utils.toWei(amount, 'ether').     *)
(***************************************************************************)
\* the characters of s before the first '.', and those after it
RECURSIVE BeforeDot(_)
BeforeDot(s) ==
    IF s = << >> \/ Head(s) = "." THEN << >>
    ELSE <<Head(s)>> \o BeforeDot(Tail(s))

AfterDot(s) ==
    LET w == BeforeDot(s)
    IN  IF Len(w) = Len(s) THEN << >> ELSE SubSeq(s, Len(w) + 2, Len(s))

AllZero(ds) == \A i \in 1..Len(ds) : ds[i] = "0"

\* the sign of parseFloat(s): "nan", "neg", "zero" or "pos".  parseFloat reads
\* an optional sign, digits, and an optional fraction, and ignores what follows
ParseFloatSign(s) ==
    LET neg   == s # << >> /\ Head(s) = "-"
        body  == IF s # << >> /\ Head(s) \in {"-", "+"} THEN Tail(s) ELSE s
        whole == DigitPrefix(body)
        rest  == SubSeq(body, Len(whole) + 1, Len(body))
        frac  == IF rest # << >> /\ Head(rest) = "." THEN DigitPrefix(Tail(rest))
                 ELSE << >>
    IN  IF whole = << >> /\ frac = << >> THEN "nan"
        ELSE IF AllZero(whole) /\ AllZero(frac) THEN "zero"
        ELSE IF neg THEN "neg"
        ELSE "pos"

RECURSIVE StripLeadingZeros(_)
StripLeadingZeros(ds) ==
    IF Len(ds) > 1 /\ Head(ds) = "0" THEN StripLeadingZeros(Tail(ds)) ELSE ds

RECURSIVE Zeros(_)
Zeros(n) == IF n <= 0 THEN << >> ELSE <<"0">> \o Zeros(n - 1)

\* toWei with the unit 'gwei': the amount times 10^9
ToWei_gwei(amount) ==
    LET neg   == amount # << >> /\ Head(amount) = "-"
        body  == IF neg THEN Tail(amount) ELSE amount
        whole == BeforeDot(body)
        frac  == AfterDot(body)
        valid == /\ body # << >>
                 /\ body # <<".">>
                 /\ \A i \in 1..Len(whole) : IsDigit(whole[i])
                 /\ \A i \in 1..Len(frac) : IsDigit(frac[i])
                 /\ Len(frac) <= 9
        wei   == StripLeadingZeros(whole \o frac \o Zeros(9 - Len(frac)))
    IN  IF ~valid THEN [ok |-> FALSE, val |-> << >>]
        ELSE IF neg /\ ~AllZero(wei) THEN [ok |-> TRUE, val |-> <<"-">> \o wei]
        ELSE [ok |-> TRUE, val |-> wei]

\* web3.utils.toWei(amount, 'ether'): the amount times 10^18 as an integer
\* string, or an exception when the string is not a decimal number
ToWei(amount) ==
    LET neg   == amount # << >> /\ Head(amount) = "-"
        body  == IF neg THEN Tail(amount) ELSE amount
        whole == BeforeDot(body)
        frac  == AfterDot(body)
        valid == /\ body # << >>
                 /\ body # <<".">>
                 /\ \A i \in 1..Len(whole) : IsDigit(whole[i])
                 /\ \A i \in 1..Len(frac) : IsDigit(frac[i])
                 /\ Len(frac) <= EtherDecimals
        wei   == StripLeadingZeros(whole \o frac \o Zeros(EtherDecimals - Len(frac)))
    IN  IF ~valid THEN [ok |-> FALSE, val |-> << >>]
        ELSE IF neg /\ ~AllZero(wei) THEN [ok |-> TRUE, val |-> <<"-">> \o wei]
        ELSE [ok |-> TRUE, val |-> wei]

(***************************************************************************)
(* localStorage: three keys, each absent (<< >>) or holding a string.      *)
(* The quest log string is JSON text of a list, or text that is not JSON.  *)
(***************************************************************************)
\* JSON.stringify of a quest-log entry: the values of its keys, and the keys
\* that the text leaves out.  A key whose value is undefined (txHash, when
\* the response had no transaction_hash) is left out; null (an unknown
\* token) is written as null
StringifyEntry(e) ==
    [omitted   |-> {k \in {"txHash"} : e.txHash = << >>},
     type      |-> e.type,
     fromToken |-> e.fromToken,
     toToken   |-> e.toToken,
     amount    |-> e.amount,
     xpEarned  |-> e.xpEarned,
     timestamp |-> e.timestamp,
     txHash    |-> e.txHash]

\* JSON.parse of the text of an entry: a key that is not in the text reads
\* as undefined
ParseEntry(j) ==
    [type      |-> j.type,
     fromToken |-> j.fromToken,
     toToken   |-> j.toToken,
     amount    |-> j.amount,
     xpEarned  |-> j.xpEarned,
     timestamp |-> j.timestamp,
     txHash    |-> IF "txHash" \in j.omitted THEN << >> ELSE j.txHash]

JsonStringify(list) ==
    [json |-> TRUE, val |-> [i \in 1..Len(list) |-> StringifyEntry(list[i])]]

NotJson == [json |-> FALSE, val |-> << >>]

\* JSON.parse: the parsed value, or an exception
JsonParse(text) ==
    IF text.json
    THEN [ok |-> TRUE, val |-> [i \in 1..Len(text.val) |-> ParseEntry(text.val[i])]]
    ELSE [ok |-> FALSE, val |-> << >>]

EmptyStorage == [xp |-> << >>, level |-> << >>, questLog |-> << >>]

\* loadSavedState: the progression state after reading the three keys.  Each
\* key is assigned only when its string is truthy; an exception of JSON.parse
\* is caught after currentXP and currentLevel were assigned
LoadSavedState(st, xp, level, log) ==
    LET parsed == JsonParse(st.questLog[1])
    IN  [xp    |-> IF Truthy(st.xp) THEN ParseInt(st.xp[1]) ELSE xp,
         level |-> IF Truthy(st.level) THEN ParseInt(st.level[1]) ELSE level,
         log   |-> IF st.questLog # << >> /\ parsed.ok THEN parsed.val ELSE log]

\* saveState without its setItem of tokenQuest_level
SaveState_skipsLevel(st, xp, level, log, k) ==
    [xp       |-> IF k >= 1 THEN <<NumberToString(xp)>> ELSE st.xp,
     level    |-> st.level,
     questLog |-> IF k >= 3 THEN <<JsonStringify(log)>> ELSE st.questLog]

\* saveState: three setItem calls in order; k of them succeed before one
\* throws (k = 3: all succeed), and the exception is caught
SaveState(st, xp, level, log, k) ==
    [xp       |-> IF k >= 1 THEN <<NumberToString(xp)>> ELSE st.xp,
     level    |-> IF k >= 2 THEN <<NumberToString(level)>> ELSE st.level,
     questLog |-> IF k >= 3 THEN <<JsonStringify(log)>> ELSE st.questLog]

(***************************************************************************)
(* Progression ledger.                                                     *)
(***************************************************************************)
\* addXP: the level is assigned only when the recomputed level is greater
\* than the stored one, and only then is the level-up effect shown
AddXP(xp, level, amount) ==
    LET newXP    == JsAdd(xp, amount)
        newLevel == LevelFor(newXP)
        up       == JsGt(newLevel, level)
    IN  [xp      |-> newXP,
         level   |-> IF up THEN newLevel ELSE level,
         levelUp |-> up]

\* addToQuestLog with slice(-10) in place of slice(0, 10): on overflow the
\* newest entry is dropped, not the oldest
AddToQuestLog_keepsOldest(log, entry) ==
    LET pushed == <<entry>> \o log
    IN  IF Len(pushed) > QuestLogCap THEN SubSeq(pushed, 2, Len(pushed))
        ELSE pushed

\* addToQuestLog: unshift, then keep the first 10
AddToQuestLog(log, entry) ==
    LET pushed == <<entry>> \o log
    IN  IF Len(pushed) > QuestLogCap THEN SubSeq(pushed, 1, QuestLogCap)
        ELSE pushed

\* result.xp_earned || 10: undefined and 0 are both falsy
XpEarned(result) ==
    IF result.xp_earned = << >> \/ result.xp_earned[1] = 0 THEN Num(BaseXP)
    ELSE result.xp_earned

\* handleSwapSuccess logging result.xp_earned in place of the XP it awarded
QuestEntry_logsReportedXP(result, form, xpEarned, time) ==
    [type      |-> "swap",
     fromToken |-> GetTokenSymbolByAddress(form.fromToken),
     toToken   |-> GetTokenSymbolByAddress(form.toToken),
     amount    |-> form.amount,
     xpEarned  |-> result.xp_earned,
     timestamp |-> time,
     txHash    |-> result.transaction_hash]

\* the quest-log entry that handleSwapSuccess builds
QuestEntry(result, form, xpEarned, time) ==
    [type      |-> "swap",
     fromToken |-> GetTokenSymbolByAddress(form.fromToken),
     toToken   |-> GetTokenSymbolByAddress(form.toToken),
     amount    |-> form.amount,
     xpEarned  |-> xpEarned,
     timestamp |-> time,
     txHash    |-> result.transaction_hash]

(***************************************************************************)
(* Swap form.                                                              *)
(***************************************************************************)
\* handleSwapSubmission without its same-token check
ValidateSubmission_noSameTokenCheck(connected, form) ==
    IF ~connected THEN "Please connect your wallet first!"
    ELSE IF form.fromToken = "" \/ form.toToken = "" \/ form.amount = << >>
        THEN "Please fill all required fields!"
    ELSE ""

\* handleSwapSubmission: the warning shown when the submission is turned
\* away, "" when it goes on to executeSwap
ValidateSubmission(connected, form) ==
    IF ~connected THEN "Please connect your wallet first!"
    ELSE IF form.fromToken = "" \/ form.toToken = "" \/ form.amount = << >>
        THEN "Please fill all required fields!"
    ELSE IF form.fromToken = form.toToken
        THEN "Please select different tokens!"
    ELSE ""

\* updateSwapButtonState: the text of the swap button; the button is enabled
\* only with the last text
SwapButtonText(connected, form) ==
    IF ~connected THEN "Connect Wallet to Start Quest"
    ELSE IF form.fromToken = "" \/ form.toToken = "" THEN "Select Tokens"
    ELSE IF form.fromToken = form.toToken THEN "Select Different Tokens"
    ELSE IF form.amount = << >> \/ ParseFloatSign(form.amount) # "pos"
        THEN "Enter Amount"
    ELSE "Start Treasure Hunt!"

\* executeSwap: error.message of the exception that reaches the catch block.
\* A response with success = false throws Error(result.error || 'Swap failed');
\* a failed call throws the error of fetch
FailureMessage(result) ==
    IF result.kind = "json"
    THEN IF result.error = << >> \/ result.error[1] = "" THEN "Swap failed"
         ELSE result.error[1]
    ELSE result.message[1]

Notification(type, tmpl, text, num) ==
    [type |-> type, tmpl |-> tmpl, text |-> text, num |-> num]

(***************************************************************************)
(* State.                                                                  *)
(***************************************************************************)
VARIABLES
    web3,          \* AppState.web3 is initialised
    account,       \* AppState.account, << >> when null
    isConnected,   \* AppState.isConnected
    currentLevel,  \* AppState.currentLevel
    currentXP,     \* AppState.currentXP
    questLog,      \* AppState.questLog, newest first
    storage,       \* localStorage
    phase,         \* "boot" before DOMContentLoaded, "running" after
    ethAccounts,   \* the eth_accounts request of checkWalletConnection is pending
    connectReqs,   \* eth_requestAccounts requests in flight
    pending,       \* execute requests in flight
    nextId,        \* execute requests sent so far
    now,           \* successful swaps so far: the clock of new Date()
    emitted,       \* notifications and modals shown by the last step
    completed,     \* history: entries of the successful swaps, oldest first
    loaded,        \* history: the quest log as loadSavedState left it
    loadedXP,      \* history: currentXP as loadSavedState left it
    last,          \* history: the last step and the state it started from
    tasks,         \* connectWallet calls past their first await, by awaited call
    chainId,       \* the chain the wallet is on
    networkStatus, \* the #networkStatus alert: "hidden", "compliant", "noncompliant"
    quotes,        \* quote requests in flight
    quoteSeq,      \* quote requests sent so far
    expectedOutput,\* the text of #expectedOutput
    priceImpact,   \* the text of #priceImpact: << >> until a quote sets it
    snapshot,      \* history: the progression when the page was last closed
    watch          \* history: the request that one watched connect awaits

vars == <<web3, account, isConnected, currentLevel, currentXP, questLog,
          storage, phase, ethAccounts, connectReqs, pending, nextId, now,
          emitted, completed, loaded, loadedXP, last, tasks, chainId, networkStatus,
          quotes, quoteSeq, expectedOutput, priceImpact, snapshot, watch>>

session == <<web3, account, isConnected>>
ledger  == <<currentLevel, currentXP, questLog, storage, now, completed>>
wallet  == <<ethAccounts, connectReqs>>
swaps   == <<pending, nextId>>
network == <<tasks, chainId, networkStatus>>
quote   == <<quotes, quoteSeq, expectedOutput, priceImpact>>

\* CONFIG.CHAIN_ID, and another chain
CHAIN_ID == "0x61"
OTHER_CHAIN == "0x1"

\* the calls a connectWallet call awaits, in order
Stages == {"eth_chainId", "wallet_switchEthereumChain",
           "wallet_addEthereumChain", "validate-wallet"}

NoTasks == [st \in Stages |-> 0]

\* connectWallet calls that are awaiting a request to the wallet
WalletTasks ==
    tasks["eth_chainId"] + tasks["wallet_switchEthereumChain"]
    + tasks["wallet_addEthereumChain"]

TaskCount == WalletTasks + tasks["validate-wallet"]

\* requests to the wallet that are awaiting their answer
WalletRequests == (IF ethAccounts THEN 1 ELSE 0) + connectReqs + WalletTasks

\* requests of this method that are awaiting their answer
Awaiting(method) ==
    IF method = "eth_requestAccounts" THEN connectReqs ELSE tasks[method]

\* the same after the step
StillAwaiting(method) ==
    IF method = "eth_requestAccounts" THEN connectReqs' ELSE tasks'[method]

\* the request to the wallet that the answered call sends in this step,
\* "idle" when it sends none: requestWalletConnection goes on to
\* verifyNetwork, verifyNetwork to the switch, the switch to the add
Following ==
    LET sent == {m \in Stages \ {"validate-wallet"} : tasks'[m] > tasks[m]}
    IN  IF sent = {} THEN "idle" ELSE CHOOSE m \in sent : TRUE

\* the watched call across a step: a new call of requestWalletConnection is
\* watched when none is; an answer to a request of the awaited method is
\* the answer to the watched call, or to another call that awaits the same
\* method
WatchStep ==
    watch' \in
        IF watch = "off" THEN {"off"}
        ELSE IF watch = "idle"
        THEN IF connectReqs' > connectReqs
             THEN {"eth_requestAccounts"} ELSE {"idle"}
        ELSE IF StillAwaiting(watch) < Awaiting(watch)
        THEN {Following}
             \cup (IF StillAwaiting(watch) > 0 THEN {watch} ELSE {})
        ELSE {watch}

\* #expectedOutput as the page and handleSwapSuccess set it: '-- TOKEN'
Placeholder == [kind |-> "-- TOKEN", amount |-> << >>, symbol |-> ""]

NoForm == [fromToken |-> "", toToken |-> "", amount |-> << >>]

NoResult ==
    [kind |-> "none", success |-> FALSE, xp_earned |-> << >>, error |-> << >>,
     message |-> << >>, transaction_hash |-> << >>]

\* the progression state in memory
Progression == [xp |-> currentXP, level |-> currentLevel, log |-> questLog]

\* the state a step starts from
Pre ==
    [xp |-> currentXP, level |-> currentLevel, log |-> questLog,
     storage |-> storage, sent |-> nextId, isConnected |-> isConnected,
     inflight |-> Cardinality(pending), account |-> account,
     walletRequests |-> WalletRequests, expectedOutput |-> expectedOutput,
     priceImpact |-> priceImpact, quoteSeq |-> quoteSeq, watch |-> watch]

\* the record of a step: addXP is <<amount>> when the step called addXP.
\* accounts and rejected are the answer or event of the wallet, id the
\* number of the quote request answered, mid the storage at the return of
\* addXP
Step(op, form, result, addXP, levelUp) ==
    [op |-> op, pre |-> Pre, form |-> form, result |-> result,
     addXP |-> addXP, levelUp |-> levelUp,
     accounts |-> << >>, rejected |-> FALSE, id |-> 0, mid |-> << >>,
     chain |-> "", outcome |-> ""]

\* a step that handled the wallet's answer or event.  The answer is recorded
\* where the wallet side is followed
WalletStep(op, accounts, rejected, follow) ==
    IF follow
    THEN [Step(op, NoForm, NoResult, << >>, FALSE)
             EXCEPT !.accounts = accounts, !.rejected = rejected]
    ELSE Step(op, NoForm, NoResult, << >>, FALSE)

\* a step of the network handling: the answer of an awaited call, or the
\* chain of a chainChanged event
NetworkStep(op, chain, outcome) ==
    [Step(op, NoForm, NoResult, << >>, FALSE)
        EXCEPT !.chain = chain, !.outcome = outcome]

\* the state of the script's declarations.  watching is "off", or "idle"
\* where one call of requestWalletConnection at a time is watched to its end
InitState(storages, chains, watching) ==
    /\ watch = watching
    /\ web3 = FALSE
    /\ account = << >>
    /\ isConnected = FALSE
    /\ currentLevel = Num(1)
    /\ currentXP = Num(0)
    /\ questLog = << >>
    /\ storage \in storages
    /\ phase = "boot"
    /\ ethAccounts = FALSE
    /\ connectReqs = 0
    /\ pending = {}
    /\ nextId = 0
    /\ now = 0
    /\ emitted = << >>
    /\ completed = << >>
    /\ loaded = << >>
    /\ loadedXP = Num(0)
    /\ tasks = NoTasks
    /\ chainId \in chains
    /\ networkStatus = "hidden"
    /\ quotes = {}
    /\ quoteSeq = 0
    /\ expectedOutput = Placeholder
    /\ priceImpact = << >>
    /\ snapshot = << >>
    /\ last = Step("init", NoForm, NoResult, << >>, FALSE)

InitOn(storages, chains) == InitState(storages, chains, "off")

InitWith(storages) == InitOn(storages, {CHAIN_ID})

(***************************************************************************)
(* Startup.                                                                *)
(***************************************************************************)
\* DOMContentLoaded: loadSavedState, which leaves the progression s,
\* initializeUI, setupEventListeners, and checkWalletConnection up to its
\* eth_accounts request
Startup(op, s) ==
    /\ phase = "boot"
    /\ currentXP' = s.xp
    /\ currentLevel' = s.level
    /\ questLog' = s.log
    /\ loaded' = s.log
    /\ loadedXP' = s.xp
    /\ phase' = "running"
    /\ ethAccounts' = TRUE
    /\ emitted' = << >>
    /\ last' = Step(op, NoForm, NoResult, << >>, FALSE)
    /\ UNCHANGED <<session, storage, connectReqs, swaps, now, completed,
                   network, quote, snapshot, watch>>

Boot == Startup("boot", LoadSavedState(storage, currentXP, currentLevel, questLog))

\* DOMContentLoaded where localStorage.getItem throws: the three reads come
\* before every assignment of loadSavedState, whose catch only logs
BootReadFails == Startup("bootReadFails", Progression)

\* the page is closed and opened again: AppState is as the script declares
\* it, the calls in flight are gone, localStorage is kept
Restart ==
    /\ phase = "running"
    /\ snapshot' = <<Progression>>
    /\ phase' = "boot"
    /\ web3' = FALSE
    /\ account' = << >>
    /\ isConnected' = FALSE
    /\ currentLevel' = Num(1)
    /\ currentXP' = Num(0)
    /\ questLog' = << >>
    /\ ethAccounts' = FALSE
    /\ connectReqs' = 0
    /\ pending' = {}
    /\ tasks' = NoTasks
    /\ networkStatus' = "hidden"
    /\ quotes' = {}
    /\ expectedOutput' = Placeholder
    /\ priceImpact' = << >>
    /\ completed' = << >>
    /\ loaded' = << >>
    /\ loadedXP' = Num(0)
    /\ emitted' = << >>
    /\ last' = Step("restart", NoForm, NoResult, << >>, FALSE)
    /\ UNCHANGED <<storage, nextId, now, chainId, quoteSeq, watch>>

(***************************************************************************)
(* Wallet session.                                                         *)
(***************************************************************************)
\* connectWallet that keeps the account of a session already connected
ConnectWallet_keepsAccount(a) ==
    /\ web3' = TRUE
    /\ account' = IF account = << >> THEN <<a>> ELSE account
    /\ isConnected' = TRUE

\* connectWallet(a) up to its first await (verifyNetwork's eth_chainId)
ConnectWallet(a) ==
    /\ web3' = TRUE
    /\ account' = <<a>>
    /\ isConnected' = TRUE

\* the call of connectWallet goes on to await eth_chainId.  A specification
\* that does not follow the call past this await passes follow = FALSE: the
\* rest of the call writes only the network status and notifications
AwaitVerifyNetwork(follow) ==
    IF follow
    THEN /\ TaskCount < MaxTasks
         /\ tasks' = [tasks EXCEPT !["eth_chainId"] = @ + 1]
    ELSE UNCHANGED tasks

\* disconnectWallet without AppState.account = null
DisconnectWallet_keepsAccount ==
    /\ web3' = FALSE
    /\ account' = account
    /\ isConnected' = FALSE

\* disconnectWallet
DisconnectWallet ==
    /\ web3' = FALSE
    /\ account' = << >>
    /\ isConnected' = FALSE

DisconnectNote == <<Notification("info", "Wallet disconnected", "", NaN)>>

\* click on the connect button: disconnect when connected, else
\* requestWalletConnection up to its eth_requestAccounts request
HandleWalletConnection ==
    /\ phase = "running"
    /\ IF isConnected
       THEN /\ DisconnectWallet
            /\ emitted' = DisconnectNote
            /\ UNCHANGED connectReqs
       ELSE /\ connectReqs < MaxConnects
            /\ connectReqs' = connectReqs + 1
            /\ emitted' = << >>
            /\ UNCHANGED session
    /\ last' = Step("walletClick", NoForm, NoResult, << >>, FALSE)
    /\ UNCHANGED <<ledger, loaded, loadedXP, phase, ethAccounts, swaps, network, quote,
                   snapshot>>
    /\ WatchStep

\* the wallet answers eth_accounts (checkWalletConnection): accounts is the
\* list, rejected tells that the request failed instead
EthAccountsResponse(accounts, rejected, follow) ==
    /\ ethAccounts
    /\ ethAccounts' = FALSE
    /\ IF ~rejected /\ Len(accounts) > 0
       THEN ConnectWallet(accounts[1]) /\ AwaitVerifyNetwork(follow)
       ELSE UNCHANGED <<session, tasks>>
    /\ emitted' = << >>
    /\ last' = WalletStep("ethAccounts", accounts, rejected, follow)
    /\ UNCHANGED <<ledger, loaded, loadedXP, phase, connectReqs, swaps, chainId,
                   networkStatus, quote, snapshot>>
    /\ WatchStep

\* the wallet answers eth_requestAccounts (requestWalletConnection)
RequestAccountsResponse(accounts, rejected, follow) ==
    /\ connectReqs > 0
    /\ connectReqs' = connectReqs - 1
    /\ IF ~rejected /\ Len(accounts) > 0
       THEN ConnectWallet(accounts[1]) /\ AwaitVerifyNetwork(follow)
       ELSE UNCHANGED <<session, tasks>>
    /\ emitted' = IF rejected
                  THEN <<Notification("error",
                          "Failed to connect wallet. Please try again.", "", NaN)>>
                  ELSE << >>
    /\ last' = WalletStep("requestAccounts", accounts, rejected, follow)
    /\ UNCHANGED <<ledger, loaded, loadedXP, phase, ethAccounts, swaps, chainId,
                   networkStatus, quote, snapshot>>
    /\ WatchStep

\* handleAccountsChanged
HandleAccountsChanged(accounts, follow) ==
    /\ phase = "running"
    /\ IF Len(accounts) = 0
       THEN DisconnectWallet /\ emitted' = DisconnectNote /\ UNCHANGED tasks
       ELSE /\ ConnectWallet(accounts[1])
            /\ AwaitVerifyNetwork(follow)
            /\ emitted' = << >>
    /\ last' = WalletStep("accountsChanged", accounts, FALSE, follow)
    /\ UNCHANGED <<ledger, loaded, loadedXP, phase, wallet, swaps, chainId,
                   networkStatus, quote, snapshot>>
    /\ WatchStep

(***************************************************************************)
(* Network handling: the rest of a connectWallet call, one action per      *)
(* awaited answer, and the chainChanged event.                             *)
(***************************************************************************)
\* updateNetworkStatus(isCorrectNetwork)
UpdateNetworkStatus(isCorrectNetwork) ==
    IF isCorrectNetwork THEN "compliant" ELSE "noncompliant"

\* a call awaiting `from` gets its answer and goes on to await `to`
Advance(from, to) ==
    /\ tasks[from] > 0
    /\ tasks' = [tasks EXCEPT ![from] = @ - 1, ![to] = @ + 1]

\* the frame of the steps that follow connectWallet's first await
NetworkFrame ==
    /\ UNCHANGED <<session, ledger, loaded, loadedXP, phase, wallet, swaps, quote, snapshot>>
    /\ WatchStep

\* verifyNetwork that asks for the switch whatever chain the wallet answers
ChainIdResponse_alwaysSwitches(rejected) ==
    /\ IF rejected
       THEN /\ Advance("eth_chainId", "validate-wallet")
            /\ networkStatus' = UpdateNetworkStatus(FALSE)
       ELSE /\ Advance("eth_chainId", "wallet_switchEthereumChain")
            /\ UNCHANGED networkStatus
    /\ emitted' = << >>
    /\ last' = NetworkStep("eth_chainId", chainId,
                           IF rejected THEN "rejected" ELSE "ok")
    /\ UNCHANGED chainId
    /\ NetworkFrame

\* verifyNetwork after its eth_chainId request: the wallet answers with its
\* chain, or rejects
ChainIdResponse(rejected) ==
    /\ IF rejected
       THEN /\ Advance("eth_chainId", "validate-wallet")
            /\ networkStatus' = UpdateNetworkStatus(FALSE)
       ELSE IF chainId # CHAIN_ID
       THEN /\ Advance("eth_chainId", "wallet_switchEthereumChain")
            /\ UNCHANGED networkStatus
       ELSE /\ Advance("eth_chainId", "validate-wallet")
            /\ networkStatus' = UpdateNetworkStatus(TRUE)
    /\ emitted' = << >>
    /\ last' = NetworkStep("eth_chainId", chainId,
                           IF rejected THEN "rejected" ELSE "ok")
    /\ UNCHANGED chainId
    /\ NetworkFrame

SwitchOutcomes == {"ok", "4902", "rejected"}

\* switchToBSCTestnet whose failed switch disconnects the wallet
SwitchResponse_disconnects(outcome) ==
    /\ IF outcome = "ok"
       THEN /\ Advance("wallet_switchEthereumChain", "validate-wallet")
            /\ chainId' = CHAIN_ID
            /\ networkStatus' = UpdateNetworkStatus(TRUE)
            /\ UNCHANGED session
       ELSE IF outcome = "4902"
       THEN /\ Advance("wallet_switchEthereumChain", "wallet_addEthereumChain")
            /\ UNCHANGED <<chainId, networkStatus, session>>
       ELSE /\ Advance("wallet_switchEthereumChain", "validate-wallet")
            /\ networkStatus' = UpdateNetworkStatus(FALSE)
            /\ DisconnectWallet
            /\ UNCHANGED chainId
    /\ emitted' = << >>
    /\ last' = NetworkStep("wallet_switchEthereumChain", chainId, outcome)
    /\ UNCHANGED <<ledger, loaded, loadedXP, phase, wallet, swaps, quote, snapshot>>
    /\ WatchStep

\* switchToBSCTestnet after its wallet_switchEthereumChain request: the
\* wallet switched, or does not know the chain (code 4902), or refused
SwitchResponse(outcome) ==
    /\ IF outcome = "ok"
       THEN /\ Advance("wallet_switchEthereumChain", "validate-wallet")
            /\ chainId' = CHAIN_ID
            /\ networkStatus' = UpdateNetworkStatus(TRUE)
       ELSE IF outcome = "4902"
       THEN /\ Advance("wallet_switchEthereumChain", "wallet_addEthereumChain")
            /\ UNCHANGED <<chainId, networkStatus>>
       ELSE /\ Advance("wallet_switchEthereumChain", "validate-wallet")
            /\ networkStatus' = UpdateNetworkStatus(FALSE)
            /\ UNCHANGED chainId
    /\ emitted' = << >>
    /\ last' = NetworkStep("wallet_switchEthereumChain", chainId, outcome)
    /\ NetworkFrame

\* switchToBSCTestnet that asks for the switch again once the chain is added
AddResponse_switchesAgain(rejected, chain) ==
    /\ chain \in {chainId, CHAIN_ID}
    /\ IF rejected
       THEN /\ Advance("wallet_addEthereumChain", "validate-wallet")
            /\ networkStatus' = UpdateNetworkStatus(FALSE)
            /\ chainId' = chainId
       ELSE /\ Advance("wallet_addEthereumChain", "wallet_switchEthereumChain")
            /\ UNCHANGED networkStatus
            /\ chainId' = chain
    /\ emitted' = << >>
    /\ last' = NetworkStep("wallet_addEthereumChain", chainId,
                           IF rejected THEN "rejected" ELSE "ok")
    /\ NetworkFrame

\* switchToBSCTestnet after its wallet_addEthereumChain request: the wallet
\* added the chain, and moved to it or not, or refused
AddResponse(rejected, chain) ==
    /\ tasks["wallet_addEthereumChain"] > 0
    /\ tasks' = [tasks EXCEPT !["wallet_addEthereumChain"] = @ - 1,
                              !["validate-wallet"] = @ + 1]
    /\ chain \in {chainId, CHAIN_ID}
    /\ IF rejected
       THEN /\ networkStatus' = UpdateNetworkStatus(FALSE)
            /\ chainId' = chainId
       ELSE /\ networkStatus' = UpdateNetworkStatus(TRUE)
            /\ chainId' = chain
    /\ emitted' = << >>
    /\ last' = NetworkStep("wallet_addEthereumChain", chainId,
                           IF rejected THEN "rejected" ELSE "ok")
    /\ NetworkFrame

ValidateOutcomes == {"valid", "invalid", "error"}

\* validateWalletWithBackend after its fetch, and the end of connectWallet:
\* every outcome of the validation is only logged
ValidateResponse(outcome) ==
    /\ tasks["validate-wallet"] > 0
    /\ tasks' = [tasks EXCEPT !["validate-wallet"] = @ - 1]
    /\ emitted' = <<Notification("success",
                      "Wallet connected! Ready to start your treasure hunt!",
                      "", NaN)>>
    /\ last' = NetworkStep("validate-wallet", chainId, outcome)
    /\ UNCHANGED <<chainId, networkStatus>>
    /\ NetworkFrame

\* handleChainChanged: the wallet moved to `chain` and says so
HandleChainChanged(chain) ==
    /\ phase = "running"
    /\ chain # chainId
    /\ chainId' = chain
    /\ networkStatus' = UpdateNetworkStatus(chain = CHAIN_ID)
    /\ emitted' = << >>
    /\ last' = NetworkStep("chainChanged", chain, "")
    /\ UNCHANGED tasks
    /\ NetworkFrame

(***************************************************************************)
(* Swap orchestrator.                                                      *)
(***************************************************************************)
\* executeSwap up to its fetch: the exception thrown before the request is
\* sent, if any.  AppState.web3 is dereferenced, then toWei parses the amount
ExecuteSwapThrows(form) ==
    IF ~web3 THEN <<"Cannot read properties of null (reading 'utils')">>
    ELSE IF ~ToWei(form.amount).ok THEN <<"invalid number value">>
    ELSE << >>

\* the execute request with the address of the first request still pending
ExecuteRequest_earlierAddress(id, form) ==
    [id            |-> id,
     walletAddress |-> IF pending = {} THEN account
                       ELSE (CHOOSE r \in pending :
                                \A q \in pending : r.id <= q.id).walletAddress,
     tokenIn       |-> form.fromToken,
     tokenOut      |-> form.toToken,
     amountIn      |-> ToWei(form.amount).val,
     form          |-> form]

\* the body of the execute request
ExecuteRequest(id, form) ==
    [id            |-> id,
     walletAddress |-> account,
     tokenIn       |-> form.fromToken,
     tokenOut      |-> form.toToken,
     amountIn      |-> ToWei(form.amount).val,
     form          |-> form]

\* submit event of the swap form: handleSwapSubmission, and executeSwap up to
\* the await of its fetch
HandleSwapSubmission(form) ==
    /\ phase = "running"
    /\ LET reason == ValidateSubmission(isConnected, form)
           thrown == ExecuteSwapThrows(form)
       IN  IF reason # ""
           THEN /\ emitted' = <<Notification("warning", reason, "", NaN)>>
                /\ UNCHANGED swaps
           ELSE IF thrown # << >>
           THEN /\ emitted' = <<Notification("error", "Swap failed: ",
                                             thrown[1], NaN)>>
                /\ UNCHANGED swaps
           ELSE /\ pending' = pending \cup {ExecuteRequest(nextId + 1, form)}
                /\ nextId' = nextId + 1
                /\ emitted' = << >>
    /\ last' = Step("submit", form, NoResult, << >>, FALSE)
    /\ UNCHANGED <<session, ledger, loaded, loadedXP, phase, wallet, network, quote,
                   snapshot, watch>>

\* handleSwapSuccess with a saveState that lets the exception of setItem out:
\* a failed write in addXP ends the handler before addToQuestLog, and
\* executeSwap's catch reports the swap as failed
HandleSwapSuccess_stopsOnWriteError(result, form, k1, k2) ==
    LET xpEarned == XpEarned(result)
        a        == AddXP(currentXP, currentLevel, xpEarned)
        st1      == SaveState(storage, a.xp, a.level, questLog, k1)
        entry    == QuestEntry(result, form, xpEarned, now + 1)
        log2     == IF k1 < 3 THEN questLog ELSE AddToQuestLog(questLog, entry)
        st2      == IF k1 < 3 THEN st1
                    ELSE SaveState(st1, a.xp, a.level, log2, k2)
        levelUp  == IF a.levelUp
                    THEN <<Notification("success", "Level Up! You are now level ",
                                        "", a.level)>>
                    ELSE << >>
        message  == IF result.message = << >> \/ result.message[1] = ""
                    THEN "Treasure found!" ELSE result.message[1]
    IN  /\ currentXP' = a.xp
        /\ currentLevel' = a.level
        /\ questLog' = log2
        /\ storage' = st2
        /\ now' = now + 1
        /\ completed' = IF k1 < 3 THEN completed ELSE Append(completed, entry)
        /\ emitted' = levelUp \o
                      IF k1 < 3
                      THEN <<Notification("error", "Swap failed: ",
                                          "QuotaExceededError", NaN)>>
                      ELSE <<Notification("modal", "success", message, xpEarned)>>
        /\ expectedOutput' = IF k1 < 3 THEN expectedOutput ELSE Placeholder
        /\ last' = [Step("execute", form, result, xpEarned, a.levelUp)
                       EXCEPT !.mid = <<st1>>]

\* handleSwapSuccess: addXP, addToQuestLog, success modal.  k1 and k2 are the
\* numbers of setItem calls that succeed in the two saveState calls
HandleSwapSuccess(result, form, k1, k2) ==
    LET xpEarned == XpEarned(result)
        a        == AddXP(currentXP, currentLevel, xpEarned)
        st1      == SaveState(storage, a.xp, a.level, questLog, k1)
        entry    == QuestEntry(result, form, xpEarned, now + 1)
        log2     == AddToQuestLog(questLog, entry)
        st2      == SaveState(st1, a.xp, a.level, log2, k2)
        levelUp  == IF a.levelUp
                    THEN <<Notification("success", "Level Up! You are now level ",
                                        "", a.level)>>
                    ELSE << >>
        message  == IF result.message = << >> \/ result.message[1] = ""
                    THEN "Treasure found!" ELSE result.message[1]
    IN  /\ currentXP' = a.xp
        /\ currentLevel' = a.level
        /\ questLog' = log2
        /\ storage' = st2
        /\ now' = now + 1
        /\ completed' = Append(completed, entry)
        /\ emitted' = levelUp \o <<Notification("modal", "success", message,
                                                 xpEarned)>>
        /\ expectedOutput' = Placeholder
        /\ last' = [Step("execute", form, result, xpEarned, a.levelUp)
                       EXCEPT !.mid = <<st1>>]

\* executeSwap awarding the base XP before it looks at result.success
HandleSwapFailure_awardsXP(result, form) ==
    /\ emitted' = <<Notification("error", "Swap failed: ",
                                 FailureMessage(result), NaN)>>
    /\ last' = Step("execute", form, result, << >>, FALSE)
    /\ currentXP' = JsAdd(currentXP, Num(BaseXP))
    /\ UNCHANGED <<currentLevel, questLog, storage, now, completed,
                   expectedOutput>>

\* executeSwap's catch block: the failure is shown, nothing else changes
HandleSwapFailure(result, form) ==
    /\ emitted' = <<Notification("error", "Swap failed: ",
                                 FailureMessage(result), NaN)>>
    /\ last' = Step("execute", form, result, << >>, FALSE)
    /\ UNCHANGED <<ledger, expectedOutput>>

\* the execute call of request req completes with result: executeSwap from
\* the await of its fetch to its end
ExecuteResponse(req, result, k1, k2) ==
    /\ req \in pending
    /\ pending' = pending \ {req}
    /\ IF result.kind = "json" /\ result.success
       THEN HandleSwapSuccess(result, req.form, k1, k2)
       ELSE HandleSwapFailure(result, req.form)
    /\ UNCHANGED <<session, loaded, loadedXP, phase, wallet, nextId, network, quotes,
                   quoteSeq, priceImpact, snapshot, watch>>

(***************************************************************************)
(* Quotes: handleAmountChange, handleTokenSelection and                    *)
(* calculateExpectedOutput, whose fetch is answered in a later step.       *)
(***************************************************************************)
\* a sequence of digits plus one
RECURSIVE Increment(_)
Increment(ds) ==
    IF ds = << >> THEN <<"1">>
    ELSE LET front == SubSeq(ds, 1, Len(ds) - 1)
             d     == DigitVal(ds[Len(ds)])
         IN  IF d = 9 THEN Increment(front) \o <<"0">>
             ELSE front \o <<Digits[d + 2]>>

\* parseFloat(fromWei(wei, 'ether')).toFixed(6): the wei amount over 10^18
\* with six decimals, rounded on the seventh
ToFixed6(wei) ==
    LET p       == IF Len(wei) < EtherDecimals + 1
                   THEN Zeros(EtherDecimals + 1 - Len(wei)) \o wei ELSE wei
        n       == Len(p)
        head    == SubSeq(p, 1, n - 12)
        rounded == IF DigitVal(p[n - 11]) >= 5 THEN Increment(head) ELSE head
        m       == Len(rounded)
    IN  SubSeq(rounded, 1, m - 6) \o <<".">> \o SubSeq(rounded, m - 5, m)

\* the texts of #expectedOutput
QuoteText(amount, symbol) ==
    [kind |-> "quote", amount |-> <<amount>>, symbol |-> symbol]

QuoteFailed == [kind |-> "Quote failed", amount |-> << >>, symbol |-> ""]

QuoteUnavailable == [kind |-> "Quote unavailable", amount |-> << >>, symbol |-> ""]

\* amount && fromToken && toToken && fromToken !== toToken
QuoteQualifies(form) ==
    /\ form.amount # << >>
    /\ form.fromToken # ""
    /\ form.toToken # ""
    /\ form.fromToken # form.toToken

\* the body of the get-quote request
QuoteRequest(id, form) ==
    [id       |-> id,
     tokenIn  |-> form.fromToken,
     tokenOut |-> form.toToken,
     amountIn |-> ToWei(form.amount).val]

\* CONFIG.TOKENS[toTokenSymbol]?.symbol || 'TOKEN'
SymbolOrToken(address) ==
    LET sym == GetTokenSymbolByAddress(address)
    IN  IF sym = << >> THEN "TOKEN" ELSE sym[1]

\* calculateExpectedOutput up to the await of its fetch: an exception of
\* AppState.web3.utils.toWei is caught at once
CalculateExpectedOutput(form) ==
    IF ~QuoteQualifies(form)
    THEN UNCHANGED quote
    ELSE IF ~web3 \/ ~ToWei(form.amount).ok
    THEN /\ expectedOutput' = QuoteUnavailable
         /\ UNCHANGED <<quotes, quoteSeq, priceImpact>>
    ELSE /\ quotes' = quotes \cup {QuoteRequest(quoteSeq + 1, form)}
         /\ quoteSeq' = quoteSeq + 1
         /\ UNCHANGED <<expectedOutput, priceImpact>>

QuoteFrame ==
    UNCHANGED <<session, ledger, loaded, loadedXP, phase, wallet, swaps, network, snapshot,
                watch>>

\* input event of the amount field
HandleAmountChange(form) ==
    /\ phase = "running"
    /\ IF QuoteQualifies(form)
       THEN CalculateExpectedOutput(form)
       ELSE /\ expectedOutput' = Placeholder
            /\ UNCHANGED <<quotes, quoteSeq, priceImpact>>
    /\ emitted' = << >>
    /\ last' = Step("amountChange", form, NoResult, << >>, FALSE)
    /\ QuoteFrame

\* change event of a token selector, and the swap-direction button
HandleTokenSelection(form) ==
    /\ phase = "running"
    /\ IF QuoteQualifies(form)
       THEN CalculateExpectedOutput(form)
       ELSE UNCHANGED quote
    /\ emitted' = << >>
    /\ last' = Step("tokenSelection", form, NoResult, << >>, FALSE)
    /\ QuoteFrame

\* calculateExpectedOutput after its fetch: the answer is shown whatever was
\* sent or shown since the request
QuoteResponse(req, result) ==
    /\ req \in quotes
    /\ quotes' = quotes \ {req}
    /\ IF result.kind = "error" \/ (result.success /\ ~web3)
       THEN expectedOutput' = QuoteUnavailable /\ UNCHANGED priceImpact
       ELSE IF result.success
       THEN /\ expectedOutput' = QuoteText(ToFixed6(result.amount_out),
                                           SymbolOrToken(req.tokenOut))
            /\ priceImpact' = <<result.price_impact>>
       ELSE expectedOutput' = QuoteFailed /\ UNCHANGED priceImpact
    /\ emitted' = << >>
    /\ last' = [Step("quote", NoForm, result, << >>, FALSE) EXCEPT !.id = req.id]
    /\ UNCHANGED quoteSeq
    /\ QuoteFrame

(***************************************************************************)
(* Inputs of the environment.                                              *)
(***************************************************************************)
Str95  == <<"9", "5">>
Str250 == <<"2", "5", "0">>
StrAbc == <<"a", "b", "c">>

\* a quest log of n entries written by an earlier session, newest first
OldEntry(i) ==
    [type |-> "swap", fromToken |-> <<"WBNB">>, toToken |-> <<"BUSD">>,
     amount |-> <<"1">>, xpEarned |-> Num(BaseXP), timestamp |-> 0 - i,
     txHash |-> <<"0xold">>]

OldLog(n) == [i \in 1..n |-> OldEntry(i)]

\* what localStorage may hold when the page is opened
InitStorages ==
    [xp       : {<< >>, <<Str95>>, <<Str250>>, <<StrAbc>>},
     level    : {<< >>, <<<<"1">>>>, <<<<"3">>>>},
     questLog : {<< >>, <<JsonStringify(OldLog(QuestLogCap + 1))>>, <<NotJson>>}]

Accounts == {"0xA11ce"}

AccountLists == {<< >>} \cup {<<a>> : a \in Accounts}

\* the answers of the wallet to a request for the accounts: a list, or a
\* rejection, which carries no list
Answers(lists) ==
    {[accounts |-> l, rejected |-> FALSE] : l \in lists}
    \cup {[accounts |-> << >>, rejected |-> TRUE]}

\* a well-formed form, and the forms that differ from it in one field
GoodForm == [fromToken |-> WBNB_ADDRESS, toToken |-> BUSD_ADDRESS, amount |-> <<"1">>]

FormTokens == {"", WBNB_ADDRESS, WBNB_LOWER, BUSD_ADDRESS, OTHER_ADDRESS}

FormAmounts == {<< >>, <<"0">>, <<"1">>, <<"-", "1">>, <<"a">>}

Forms ==
    {[GoodForm EXCEPT !.fromToken = t] : t \in FormTokens}
    \cup {[GoodForm EXCEPT !.toToken = t] : t \in FormTokens}
    \cup {[GoodForm EXCEPT !.amount = a] : a \in FormAmounts}

SuccessResult(xp) ==
    [kind |-> "json", success |-> TRUE, xp_earned |-> xp, error |-> << >>,
     message |-> << >>, transaction_hash |-> <<"0xtx">>]

FailureResult(err) ==
    [kind |-> "json", success |-> FALSE, xp_earned |-> << >>, error |-> err,
     message |-> << >>, transaction_hash |-> << >>]

\* fetch rejects, or response.json() throws
CallError(msg) ==
    [kind |-> "error", success |-> FALSE, xp_earned |-> << >>, error |-> << >>,
     message |-> <<msg>>, transaction_hash |-> << >>]

ExecuteResults ==
    {SuccessResult(xp) : xp \in {<< >>, Num(25)}}
    \cup {FailureResult(e) : e \in {<< >>, <<"">>, <<"Insufficient liquidity">>}}
    \cup {CallError("Failed to fetch")}

\* every setItem call succeeds
SaveOutcomes == {3}

(***************************************************************************)
(* Specifications.                                                         *)
(***************************************************************************)
\* the results tried on a request: all of them on the well-formed form, the
\* plain success and the plain failure on the other forms
ResultsFor(req, results) ==
    IF req.form = GoodForm THEN results
    ELSE {r \in results :
            r.kind = "json" /\ r.xp_earned = << >> /\ r.error = << >>}

\* the steps of the program, with the forms that are submitted, the results
\* of the execute service, the number of execute requests of a run and the
\* number of them in flight at once
NextWith(forms, results, limit, inflight) ==
    \/ Boot
    \/ HandleWalletConnection
    \/ \E a \in Answers(AccountLists) :
          EthAccountsResponse(a.accounts, a.rejected, FALSE)
    \/ \E a \in Answers(AccountLists) :
          RequestAccountsResponse(a.accounts, a.rejected, FALSE)
    \/ \E l \in AccountLists : HandleAccountsChanged(l, FALSE)
    \/ /\ nextId < limit
       /\ Cardinality(pending) < inflight
       /\ \E f \in forms : HandleSwapSubmission(f)
    \/ \E req \in pending :
          \E res \in ResultsFor(req, results), k1, k2 \in SaveOutcomes :
             ExecuteResponse(req, res, k1, k2)

\* Spec: the swap orchestrator on every form, from a first visit
Init == InitWith({EmptyStorage})

Next == NextWith(Forms, ExecuteResults, MaxSwaps, MaxSwaps)

Spec == Init /\ [][Next]_vars

\* SpecLedger: the progression ledger, from whatever localStorage holds
LedgerResults ==
    {SuccessResult(xp) : xp \in {<< >>, Num(0), Num(5), Num(110)}}
    \cup {FailureResult(<< >>)}

InitLedger == InitWith(InitStorages)

NextLedger == NextWith({GoodForm}, LedgerResults, MaxLedgerSwaps, MaxLedgerSwaps)

SpecLedger == InitLedger /\ [][NextLedger]_vars

\* SpecLog: long runs of swaps, from a first visit
LogResults == {SuccessResult(<< >>), FailureResult(<< >>)}

InitLog == InitWith({EmptyStorage})

NextLog == NextWith({GoodForm}, LogResults, MaxLogSwaps, MaxInFlight)

SpecLog == InitLog /\ [][NextLog]_vars

\* SpecPersist: swaps and page reloads, from whatever localStorage holds
PersistResults ==
    {[SuccessResult(<< >>) EXCEPT !.transaction_hash = << >>],
     SuccessResult(Num(110)), FailureResult(<< >>)}

NextPersist ==
    \/ NextWith({GoodForm}, PersistResults, MaxPersistSwaps, MaxPersistSwaps)
    \/ Restart

SpecPersist == InitLedger /\ [][NextPersist]_vars

\* SpecStorage: swaps with a localStorage whose reads and writes may throw
WriteOutcomes == 0..3

StorageResults == {SuccessResult(<< >>), SuccessResult(Num(110)), FailureResult(<< >>)}

InitStorage ==
    InitWith({EmptyStorage,
              [xp |-> <<Str95>>, level |-> <<<<"1">>>>,
               questLog |-> <<JsonStringify(OldLog(QuestLogCap))>>]})

NextStorage ==
    \/ Boot
    \/ BootReadFails
    \/ \E a \in Answers(AccountLists) :
          EthAccountsResponse(a.accounts, a.rejected, FALSE)
    \/ /\ nextId < MaxStorageSwaps
       /\ HandleSwapSubmission(GoodForm)
    \/ \E req \in pending :
          \E res \in StorageResults, k1, k2 \in WriteOutcomes :
             ExecuteResponse(req, res, k1, k2)

SpecStorage == InitStorage /\ [][NextStorage]_vars

\* SpecWallet: the wallet session with the network handling, two accounts
\* and two chains
WalletAccounts == {"0xA11ce", "0xB0b"}

WalletAccountLists ==
    {<< >>, <<"0xA11ce">>, <<"0xB0b">>, <<"0xB0b", "0xA11ce">>}

Chains == {CHAIN_ID, OTHER_CHAIN}

InitWallet == InitOn({EmptyStorage}, Chains)

NextWallet ==
    \/ Boot
    \/ HandleWalletConnection
    \/ \E a \in Answers(WalletAccountLists) :
          EthAccountsResponse(a.accounts, a.rejected, TRUE)
    \/ \E a \in Answers(WalletAccountLists) :
          RequestAccountsResponse(a.accounts, a.rejected, TRUE)
    \/ \E l \in WalletAccountLists : HandleAccountsChanged(l, TRUE)
    \/ \E r \in BOOLEAN : ChainIdResponse(r)
    \/ \E o \in SwitchOutcomes : SwitchResponse(o)
    \/ \E r \in BOOLEAN, c \in Chains : AddResponse(r, c)
    \/ \E o \in ValidateOutcomes : ValidateResponse(o)
    \/ \E c \in Chains : HandleChainChanged(c)

SpecWallet == InitWallet /\ [][NextWallet]_vars

\* SpecConnecting: SpecWallet where one call of requestWalletConnection at a
\* time is watched, and the wallet answers or rejects the request that the
\* watched call awaits
InitConnecting == InitState({EmptyStorage}, Chains, "idle")

Connecting == watch \notin {"off", "idle"}

WatchedAnswer == NextWallet /\ Connecting /\ watch' # watch

SpecConnecting ==
    InitConnecting /\ [][NextWallet]_vars /\ WF_vars(WatchedAnswer)

\* SpecQuote: quotes asked for and answered in any order, with the wallet
\* connected or not
Wei(whole, frac) == whole \o frac \o Zeros(EtherDecimals - Len(frac))

QuoteSuccess(out, impact) ==
    [kind |-> "json", success |-> TRUE, amount_out |-> out,
     price_impact |-> impact, error |-> << >>, message |-> << >>]

QuoteFailure(err) ==
    [kind |-> "json", success |-> FALSE, amount_out |-> << >>,
     price_impact |-> "", error |-> err, message |-> << >>]

QuoteCallError(msg) ==
    [kind |-> "error", success |-> FALSE, amount_out |-> << >>,
     price_impact |-> "", error |-> << >>, message |-> <<msg>>]

QuoteResults ==
    {QuoteSuccess(Wei(<<"3", "0", "0">>, << >>), "0.5"),
     QuoteSuccess(Wei(<<"2">>, <<"9", "9", "9", "9", "9", "9", "9", "5">>), "1.2"),
     QuoteFailure(<<"No liquidity">>),
     QuoteCallError("Failed to fetch")}

QuoteForms ==
    {GoodForm,
     [GoodForm EXCEPT !.amount = <<"1", ".", "5">>],
     [GoodForm EXCEPT !.amount = << >>],
     [GoodForm EXCEPT !.amount = <<"a">>],
     [GoodForm EXCEPT !.toToken = OTHER_ADDRESS],
     [GoodForm EXCEPT !.toToken = WBNB_ADDRESS]}

NextQuote ==
    \/ Boot
    \/ HandleWalletConnection
    \/ \E a \in Answers(AccountLists) :
          EthAccountsResponse(a.accounts, a.rejected, FALSE)
    \/ \E a \in Answers(AccountLists) :
          RequestAccountsResponse(a.accounts, a.rejected, FALSE)
    \/ /\ quoteSeq < MaxQuotes
       /\ \E f \in QuoteForms : HandleAmountChange(f)
    \/ /\ quoteSeq < MaxQuotes
       /\ \E f \in QuoteForms : HandleTokenSelection(f)
    \/ \E req \in quotes, res \in QuoteResults : QuoteResponse(req, res)

SpecQuote == Init /\ [][NextQuote]_vars

\* SpecRequests: the requests sent to the quote and execute services, for
\* both tokens of the registry, a bounded set of amounts and two accounts
Amounts ==
    {<<"1">>, <<"1", ".", "5">>, <<".", "5">>, <<"1", "0", "0">>,
     <<"0", ".">> \o Zeros(EtherDecimals - 1) \o <<"1">>}

\* every amount from the first token, and one amount from the second
RequestForms ==
    {[GoodForm EXCEPT !.amount = a] : a \in Amounts}
    \cup {[fromToken |-> BUSD_ADDRESS, toToken |-> WBNB_ADDRESS,
           amount |-> <<"1", ".", "5">>]}

RequestResults == {SuccessResult(<< >>)}

RequestAccountLists == {<< >>, <<"0xA11ce">>, <<"0xB0b">>}

NextRequests ==
    \/ Boot
    \/ \E a \in Answers(RequestAccountLists) :
          EthAccountsResponse(a.accounts, a.rejected, FALSE)
    \/ \E l \in RequestAccountLists : HandleAccountsChanged(l, FALSE)
    \/ /\ nextId + quoteSeq < MaxRequests
       /\ \E f \in RequestForms : HandleSwapSubmission(f)
    \/ /\ nextId + quoteSeq < MaxRequests
       /\ \E f \in RequestForms : HandleAmountChange(f)
    \/ \E req \in pending, res \in RequestResults, k \in SaveOutcomes :
          ExecuteResponse(req, res, k, k)
    \/ \E req \in quotes : QuoteResponse(req, QuoteFailure(<< >>))

SpecRequests == Init /\ [][NextRequests]_vars

(***************************************************************************)
(* Properties.                                                             *)
(***************************************************************************)
\* an optional text that is present and not empty
HasText(opt) == opt # << >> /\ opt[1] # ""

\* the last step was a submit event that sent no execute request
SubmitSentNothing == nextId = last.pre.sent

\* the last step was an execute response that left the progression alone
ProgressionUntouched ==
    /\ currentXP = last.pre.xp
    /\ currentLevel = last.pre.level
    /\ questLog = last.pre.log
    /\ storage = last.pre.storage

\* C1: a swap form submitted while an execute call is pending sends no
\* second execute request.
C1_SecondSubmissionIsBusy ==
    (last.op = "submit" /\ last.pre.inflight > 0) => SubmitSentNothing

\* C2: when the execute response arrives after the session was disconnected,
\* the swap adds no XP and no quest-log entry and is reported as a failure.
C2_DisconnectedSwapFails ==
    (last.op = "execute" /\ ~last.pre.isConnected) =>
        /\ currentXP = last.pre.xp
        /\ questLog = last.pre.log
        /\ \E i \in 1..Len(emitted) : emitted[i].type = "error"

\* C3: after every addXP call the stored level is floor(xp / 100) + 1.
C3_LevelDerivedAfterAddXP ==
    last.addXP # << >> => currentLevel = LevelFor(currentXP)

\* C4: an execute response with success = false, or a failed execute call,
\* leaves XP, level, quest log and localStorage as they were, and shows one
\* failure notification with the service's error text, or with the generic
\* reason when the service gave none.
C4_FailedExecuteChangesNothing ==
    (last.op = "execute" /\ ~(last.result.kind = "json" /\ last.result.success)) =>
        /\ ProgressionUntouched
        /\ Len(emitted) = 1
        /\ emitted[1].type = "error"
        /\ emitted[1].tmpl = "Swap failed: "
        /\ last.result.kind = "error" => emitted[1].text = last.result.message[1]
        /\ (last.result.kind = "json" /\ HasText(last.result.error))
              => emitted[1].text = last.result.error[1]
        /\ (last.result.kind = "json" /\ ~HasText(last.result.error))
              => emitted[1].text = "Swap failed"

\* C4 witness: a failure with an error text arrived when XP and quest log
\* already held the gains of an earlier swap.
C4_Witness ==
    /\ last.op = "execute"
    /\ last.result.kind = "json"
    /\ ~last.result.success
    /\ HasText(last.result.error)
    /\ last.pre.xp # Num(0)
    /\ Len(last.pre.log) > 0

\* C5: the quest log never holds more than 10 entries.
C5_QuestLogBounded == Len(questLog) <= QuestLogCap

\* C6: starting from an empty log, the quest log holds the min(n, 10) most
\* recent of the n successful swaps, the most recent first.
C6_NewestFirstLastTen ==
    loaded = << >> =>
        LET n == Len(completed)
            k == IF n < QuestLogCap THEN n ELSE QuestLogCap
        IN  /\ Len(questLog) = k
            /\ \A i \in 1..k : questLog[i] = completed[n - i + 1]

\* C6 witness: more swaps succeeded than the log can hold.
C6_Witness ==
    /\ loaded = << >>
    /\ Len(completed) > QuestLogCap
    /\ last.op = "execute"

\* C7: a submission whose amount does not parse as a number greater than
\* zero sends no execute request.
C7_NonPositiveAmountSendsNothing ==
    (last.op = "submit" /\ ParseFloatSign(last.form.amount) # "pos")
        => SubmitSentNothing

C9_UnresolvedTokenSendsNothing ==
    (/\ last.op = "submit"
     /\ \/ GetTokenSymbolByAddress(last.form.fromToken) = << >>
        \/ GetTokenSymbolByAddress(last.form.toToken) = << >>)
        => SubmitSentNothing

\* the award takes xp over a multiple of 100
CrossesBoundary(xp, amount) ==
    /\ xp # NaN
    /\ ((xp[1] + amount[1]) \div XpPerLevel) > (xp[1] \div XpPerLevel)

\* C10: addXP shows the level-up notification exactly when the award crosses
\* a 100-point boundary.
C10_LevelUpIffBoundaryCrossed ==
    last.addXP # << >> =>
        (last.levelUp <=> CrossesBoundary(last.pre.xp, last.addXP))

\* a stored number string that parseInt cannot read
NotNumeric(opt) == opt # << >> /\ ParseInt(opt[1]) = NaN

\* the persisted progression data is malformed
Malformed(st) ==
    \/ NotNumeric(st.xp)
    \/ NotNumeric(st.level)
    \/ (st.questLog # << >> /\ ~JsonParse(st.questLog[1]).ok)

\* C13: after startup from malformed persisted progression data the XP is
\* exactly 0 and the level exactly 1.
C13_MalformedLoadGivesDefaults ==
    (last.op = "boot" /\ Malformed(last.pre.storage)) =>
        (currentXP = Num(0) /\ currentLevel = Num(1))

\* the wallet answered eth_requestAccounts with a rejection or an empty list
ConnectFailed ==
    /\ last.op = "requestAccounts"
    /\ (last.rejected \/ Len(last.accounts) = 0)

\* C14: when the wallet answers a connect request with an empty account list
\* or a rejection, the session stays as it was and an error notification is
\* shown.
C14_ConnectFailureReported ==
    ConnectFailed =>
        /\ isConnected = last.pre.isConnected
        /\ account = last.pre.account
        /\ \E i \in 1..Len(emitted) : emitted[i].type = "error"

\* C19: a successful swap awards the xp_earned of the execute response when
\* the response carries one, 0 included, and 10 only when it carries none.
C19_AwardIsXpEarned ==
    (last.op = "execute" /\ last.result.kind = "json" /\ last.result.success) =>
        last.addXP = IF last.result.xp_earned = << >> THEN Num(BaseXP)
                     ELSE last.result.xp_earned

\* C11: between handlers and at every await, the account is present exactly
\* when the session is connected.
C11_AccountIffConnected == (account # << >>) <=> isConnected

\* C11 witness: an accountsChanged event with an empty list ended a
\* connected session while its connectWallet call was still awaiting.
C11_Witness ==
    /\ last.op = "accountsChanged"
    /\ last.pre.isConnected
    /\ ~isConnected
    /\ TaskCount > 0

\* C12: accountsChanged with an empty list leaves the session disconnected
\* with no account; with a non-empty list it leaves the session connected
\* with the first account of the list.
C12_AccountsChangedSetsSession ==
    last.op = "accountsChanged" =>
        IF Len(last.accounts) = 0
        THEN ~isConnected /\ account = << >>
        ELSE isConnected /\ account = <<last.accounts[1]>>

\* C12 witness: the event named another first account than the one of the
\* connected session.
C12_Witness ==
    /\ last.op = "accountsChanged"
    /\ last.pre.isConnected
    /\ Len(last.accounts) = 2
    /\ last.pre.account # <<last.accounts[1]>>

\* the steps of verifyNetwork, switchToBSCTestnet and handleChainChanged
NetworkOps ==
    {"eth_chainId", "wallet_switchEthereumChain", "wallet_addEthereumChain",
     "chainChanged"}

\* C15: no outcome of the network verification and no chainChanged event
\* changes isConnected or the account.
C15_NetworkKeepsConnection ==
    last.op \in NetworkOps =>
        (isConnected = last.pre.isConnected /\ account = last.pre.account)

\* C15 witness: the wallet refused to switch chains for a connected session.
C15_Witness ==
    /\ last.op = "wallet_switchEthereumChain"
    /\ last.outcome = "rejected"
    /\ last.pre.isConnected
    /\ networkStatus = "noncompliant"

\* the step ran disconnectWallet
Disconnected ==
    \/ (last.op = "walletClick" /\ last.pre.isConnected)
    \/ (last.op = "accountsChanged" /\ Len(last.accounts) = 0)

\* C16: disconnectWallet leaves the session as it is at startup: not
\* connected, no account, the network status as at startup, and it sends no
\* request to the wallet.
C16_DisconnectResetsSession ==
    Disconnected =>
        /\ ~isConnected
        /\ account = << >>
        /\ networkStatus = "hidden"
        /\ WalletRequests <= last.pre.walletRequests

\* the step handled the answer of a quote request that was not the latest
\* one sent
StaleQuoteAnswered == last.op = "quote" /\ last.id < last.pre.quoteSeq

\* C17: the answer of a quote request that a newer request has superseded
\* is dropped: the expected output and the price impact shown stay as they
\* were.
C17_StaleQuoteDiscarded ==
    StaleQuoteAnswered =>
        /\ expectedOutput = last.pre.expectedOutput
        /\ priceImpact = last.pre.priceImpact

\* the step ended a quote in failure: the service said success = false, the
\* call failed, or the wallet library was not initialised
QuoteFailedStep ==
    \/ /\ last.op = "quote"
       /\ (last.result.kind = "error" \/ ~last.result.success \/ ~web3)
    \/ /\ last.op \in {"amountChange", "tokenSelection"}
       /\ QuoteQualifies(last.form)
       /\ ~web3

\* C18: after a failed quote neither the expected output nor the price
\* impact of an earlier quote is shown.
C18_FailedQuoteClearsQuote ==
    QuoteFailedStep =>
        /\ expectedOutput \in {QuoteFailed, QuoteUnavailable}
        /\ priceImpact = << >>

\* what loadSavedState makes of a storage on a freshly opened page
Reloaded(st) == LoadSavedState(st, Num(0), Num(1), << >>)

\* C20: with every write succeeding, localStorage holds the XP, the level
\* and the quest log of the memory at the return of addXP (the XP and level
\* just assigned, the quest log not yet touched) and at the return of
\* addToQuestLog, and after the page is reopened loadSavedState restores
\* the XP, the level and the quest log held when it was closed.
C20_PersistenceRoundTrip ==
    /\ last.addXP # << >> =>
          /\ Reloaded(last.mid[1]) =
                [xp |-> currentXP, level |-> currentLevel, log |-> last.pre.log]
          /\ Reloaded(storage) = Progression
    /\ (last.op = "boot" /\ snapshot # << >>) => Progression = snapshot[1]

\* C20 witness: the page was reopened after a swap that took the level up,
\* and the state was loaded.
C20_Witness ==
    /\ last.op = "boot"
    /\ snapshot # << >>
    /\ Len(snapshot[1].log) > 0
    /\ snapshot[1].log[1].txHash # << >>
    /\ snapshot[1].level # Num(1)
    /\ snapshot[1].level # Num(3)

\* the step sent an execute request
ExecuteSent == last.op = "submit" /\ nextId > last.pre.sent

\* C21: every execute request is sent while the session is connected and
\* carries the account that the session holds when the request is sent.
C21_RequestCarriesCurrentAccount ==
    ExecuteSent =>
        /\ last.pre.isConnected
        /\ isConnected
        /\ account # << >>
        /\ \E r \in pending : r.id = nextId /\ r.walletAddress = account

\* C21 witness: a request was sent for the second account while a request
\* sent for the first account was still pending.
C21_Witness ==
    /\ ExecuteSent
    /\ account = <<"0xB0b">>
    /\ \E r \in pending : r.walletAddress = <<"0xA11ce">>

\* the decimals that the registry declares for the token with this address
DecimalsOf(address) ==
    LET hits == {i \in 1..Len(TOKENS) :
                    ToLowerCase(TOKENS[i].address) = ToLowerCase(address)}
    IN  TOKENS[CHOOSE i \in hits : TRUE].decimals

\* a decimal amount times 10^d, as the digits of an integer: the point moves
\* d places to the right
Scaled(amount, d) ==
    LET whole == BeforeDot(amount)
        frac  == AfterDot(amount)
    IN  StripLeadingZeros(whole \o frac \o Zeros(d - Len(frac)))

\* the step sent a quote request
QuoteSent ==
    last.op \in {"amountChange", "tokenSelection"} /\ quoteSeq > last.pre.quoteSeq

Sent(method) == tasks'[method] > tasks[method]

\* the step was the wallet's answer to a request of this method
Answered(method, outcome) ==
    /\ last'.op = method
    /\ last'.outcome = outcome
    /\ tasks'[method] < tasks[method]

\* the step ended switchToBSCTestnet with a failure
SwitchFailed ==
    \/ Answered("wallet_switchEthereumChain", "rejected")
    \/ Answered("wallet_addEthereumChain", "rejected")

\* C22: verifyNetwork sends wallet_switchEthereumChain only on an eth_chainId
\* answer that differs from the required chain, and wallet_addEthereumChain
\* only on a switch that failed with code 4902; any other failure of the
\* switch, and a failure of the add, shows the non-compliant status and sends
\* no request to the wallet.
C22_VerifyNetworkOrder ==
    [][ /\ Sent("eth_chainId") =>
              last'.op \in {"ethAccounts", "requestAccounts", "accountsChanged"}
        /\ Sent("wallet_switchEthereumChain") =>
              Answered("eth_chainId", "ok") /\ last'.chain # CHAIN_ID
        /\ Sent("wallet_addEthereumChain") =>
              Answered("wallet_switchEthereumChain", "4902")
        /\ SwitchFailed =>
              /\ networkStatus' = "noncompliant"
              /\ WalletRequests' = WalletRequests - 1
      ]_vars

\* C22 witness: the wallet refused to add the chain, after a switch that
\* failed with code 4902.
C22_Witness ==
    /\ last.op = "wallet_addEthereumChain"
    /\ last.outcome = "rejected"
    /\ networkStatus = "noncompliant"
    /\ chainId = OTHER_CHAIN

\* C23: in a connected session with no request of verifyNetwork pending at
\* the wallet, the status shown is the compliant one exactly when the
\* wallet's chain is the required chain.
C23_DisplayMatchesWallet ==
    (isConnected /\ WalletTasks = 0) =>
        (networkStatus = "compliant" <=> chainId = CHAIN_ID)

\* the last step ran disconnectWallet while a request for the account list
\* was awaiting its answer
DisconnectedWhileConnecting == Disconnected /\ (ethAccounts \/ connectReqs > 0)

\* the step is the wallet's answer to a request for the account list
AccountListArrives == last'.op \in {"ethAccounts", "requestAccounts"}

\* C24: an account list that answers a request sent before a disconnect
\* leaves the session disconnected.
C24_StaleAnswerKeepsDisconnected ==
    [][(DisconnectedWhileConnecting /\ AccountListArrives) => ~isConnected']_vars

\* the page handles an accountsChanged event and a chainChanged event now
EventsAccepted ==
    /\ ENABLED HandleAccountsChanged(<< >>, TRUE)
    /\ \A c \in Chains \ {chainId} : ENABLED HandleChainChanged(c)

\* the session is Disconnected, Connected-Compliant or Connected-NonCompliant
Settled == ~isConnected \/ networkStatus \in {"compliant", "noncompliant"}

\* C25: a call of requestWalletConnection whose requests the wallet answers
\* or rejects comes to its end; while it is pending the page handles
\* accountsChanged and chainChanged; with no request of verifyNetwork
\* pending the session is disconnected or connected with a network status.
C25_ConnectingResolves ==
    /\ [](Connecting => EventsAccepted)
    /\ [](WalletTasks = 0 => Settled)
    /\ Connecting ~> ~Connecting

\* C25 witness: the watched call came to its end with the wallet's refusal to
\* add the chain, in a connected session.
C25_Witness ==
    /\ last.pre.watch = "wallet_addEthereumChain"
    /\ watch = "idle"
    /\ last.outcome = "rejected"
    /\ isConnected
    /\ networkStatus = "noncompliant"

\* xp plus the xpEarned of the entries, added in their order
RECURSIVE SumXP(_, _)
SumXP(xp, entries) ==
    IF entries = << >> THEN xp
    ELSE SumXP(JsAdd(xp, entries[1].xpEarned), Tail(entries))

\* the step handled a successful execute response
SwapSucceeded ==
    last.op = "execute" /\ last.result.kind = "json" /\ last.result.success

\* C26: currentXP is the loaded XP plus the xpEarned of the swaps that
\* succeeded since the load; a successful execute response adds its xpEarned
\* once and puts one entry with that xpEarned at the head of the quest log,
\* in one step.
C26_SuccessAppliedOnce ==
    /\ currentXP = SumXP(loadedXP, completed)
    /\ SwapSucceeded =>
          /\ completed # << >>
          /\ currentXP = JsAdd(last.pre.xp, last.addXP)
          /\ questLog = AddToQuestLog(last.pre.log, completed[Len(completed)])
          /\ questLog[1].xpEarned = last.addXP

\* C26 witness: the second successful swap since a load that found XP and a
\* full quest log.
C26_Witness ==
    /\ SwapSucceeded
    /\ Len(completed) = 2
    /\ loadedXP = Num(95)
    /\ Len(loaded) > QuestLogCap
    /\ last.addXP = Num(5)

\* the step was a startup whose read of localStorage threw
ReadFailed == last.op = "bootReadFails"

\* C27: whatever setItem call of saveState throws, a successful swap adds
\* its XP, recomputes the level, appends its entry and shows the success
\* modal; a startup whose read of localStorage throws goes on with the
\* default state.
C27_PersistenceFailureNotFatal ==
    /\ SwapSucceeded =>
          LET a == AddXP(last.pre.xp, last.pre.level, last.addXP)
          IN  /\ currentXP = a.xp
              /\ currentLevel = a.level
              /\ completed # << >>
              /\ questLog = AddToQuestLog(last.pre.log, completed[Len(completed)])
              /\ emitted # << >>
              /\ emitted[Len(emitted)].type = "modal"
              /\ emitted[Len(emitted)].tmpl = "success"
    /\ ReadFailed =>
          /\ currentXP = Num(0) /\ currentLevel = Num(1) /\ questLog = << >>
          /\ phase = "running"
          /\ ethAccounts

\* C27 witness: a successful swap took the level up while no setItem call
\* of its two saveState calls succeeded.
C27_Witness ==
    /\ SwapSucceeded
    /\ last.levelUp
    /\ storage = last.pre.storage
    /\ storage.xp # <<NumberToString(currentXP)>>
    /\ storage # EmptyStorage

====
